---------------------------- MODULE Spec2Model ----------------------------
(***************************************************************************)
(* State-machine model of PoissonDisc::GeneratePoints                      *)
(* (src/Poisson Disc Sampling/PoissonDisc.cpp) and of BuildQueue           *)
(* (src/Build Queue/BuildQueue.cpp).  Each component has its own           *)
(* specification; the variables of the other components rest in it.        *)
(*                                                                         *)
(* GeneratePoints: one behaviour is one call.  The arguments are chosen in Init and never  *)
(* change; the locals of the call are the remaining variables.  The random *)
(* source is an input drawn with \E in the actions that consume it.        *)
(*                                                                         *)
(* float arithmetic: pointGridCellSize = minimumDistance / sqrt(2) is      *)
(* irrational for every integer minimumDistance >= 1, so on the bounded    *)
(* coordinate range of the model  x / cellSize  is never within float      *)
(* rounding of an integer and floor/ceil of it are computed exactly with   *)
(* integer comparisons of squares.                                         *)
(*                                                                         *)
(* 32-bit integers: values are kept in their signed two's-complement       *)
(* reading; a comparison the C++ performs on unsigned operands is ULess.   *)
(***************************************************************************)
EXTENDS Integers, Sequences, FiniteSets

VARIABLES
    minimumDistance,    \* argument: int
    mapDimensions,      \* argument: dimension2du [Width, Height]
    excludedSections,   \* argument: sequence of MapSection
    existingPoints,     \* argument: sequence of vector2di
    maxNumberOfPoints,  \* argument: int, MAX_INT when omitted
    outputList,         \* local: ListOfPoints
    processQueue,       \* local: QueueOfPoints (front = head)
    pointGrid,          \* local: PointGrid2D [grid, dimensions]
    numberOfPoints,     \* local: accepted-point counter
    currentPoint,       \* local: the point being processed
    i,                  \* local: index of the candidate loop
    sectionIndex,       \* position of the range-for over excludedSections
    appended,           \* the points passed to outputList.push_back, in order
    pc                  \* position of the call

\* BuildQueue and the IQueueItem objects handed to it.
VARIABLES
    _queueCapacity,     \* BuildQueue::_queueCapacity
    _currentItemTimer,  \* BuildQueue::_currentItemTimer (float)
    _queue,             \* BuildQueue::_queue, a sequence of item pointers
    _queueIndex,        \* IQueueItem::_queueIndex of every initialized live item
    queueTime,          \* what GetQueueTime() of every item returns
    deleted,            \* the items the queue has deleted
    cancelCalls,        \* OnBuildQueueCancel invocations per item
    finishCalls,        \* OnBuildQueueFinish invocations per item
    enqueueOrder,       \* the items in the order Enqueue accepted them
    finishOrder,        \* the items in the order their finish function ran
    lastCall            \* the call made last, with its arguments and result

\* GameWorld and the IUpdatable objects registered with it.
VARIABLES
    _addList,           \* GameWorld::_addList
    _updateList,        \* GameWorld::_updateList, nullptr for a removed object
    iterator,           \* position of the iterator i of the loop of UpdateAll
    worldPc,            \* position inside UpdateAll
    constructed,        \* the objects whose constructor has run
    removed,            \* the constructed objects Remove was called for
    updatedInFrame,     \* Update invocations per object in the present UpdateAll
    updatedSinceAdd,    \* the objects updated since they were passed to Add
    listAtBegin,        \* the objects of the update list when UpdateAll began
    worldCall           \* the Add or Remove made last, with its result

\* One call of MultiSelector::GetObjectsInArea.
VARIABLES
    gridNodes,          \* what GetGridNodesInSquare returned: per node its level object
    objects,            \* the list behind the objects argument
    filterFunction,     \* the level objects filterFunction returns true for
    mode,               \* the SelectionMode argument
    filtered,           \* the level objects filterFunction was called with
    deselected,         \* the level objects passed to Selection::DeselectObject
    objectsAtCall,      \* the objects list as it was passed in
    selectorPc          \* position of the call

\* One call of PoissonDisc::GetPointsAroundTile on its own.
VARIABLES
    scanCenter,         \* the centerTile argument
    scanGrid,           \* the pointGrid argument
    scanTiles,          \* the tiles whose grid entry the call read
    scanPc              \* position of the call

generatePointsVars ==
    <<minimumDistance, mapDimensions, excludedSections, existingPoints,
      maxNumberOfPoints, outputList, processQueue, pointGrid,
      numberOfPoints, currentPoint, i, sectionIndex, appended, pc>>

buildQueueVars ==
    <<_queueCapacity, _currentItemTimer, _queue, _queueIndex, queueTime,
      deleted, cancelCalls, finishCalls, enqueueOrder,
      finishOrder, lastCall>>

gameWorldVars ==
    <<_addList, _updateList, iterator, worldPc, constructed, removed,
      updatedInFrame, updatedSinceAdd, listAtBegin, worldCall>>

selectorVars ==
    <<gridNodes, objects, filterFunction, mode, filtered, deselected,
      objectsAtCall, selectorPc>>

scanVars == <<scanCenter, scanGrid, scanTiles, scanPc>>

vars == <<generatePointsVars, buildQueueVars, gameWorldVars, selectorVars, scanVars>>

\* What a step of GeneratePoints leaves alone.
outsideGeneratePoints == <<buildQueueVars, gameWorldVars, selectorVars, scanVars>>

\* What a call of BuildQueue leaves alone.
outsideBuildQueue == <<generatePointsVars, gameWorldVars, selectorVars, scanVars>>

\* What a step of GameWorld leaves alone.
outsideGameWorld == <<generatePointsVars, buildQueueVars, selectorVars, scanVars>>

\* What GetObjectsInArea leaves alone.
outsideSelector == <<generatePointsVars, buildQueueVars, gameWorldVars, scanVars>>

\* What a call of GetPointsAroundTile on its own leaves alone.
outsideScan == <<generatePointsVars, buildQueueVars, gameWorldVars, selectorVars>>

args == <<minimumDistance, mapDimensions, excludedSections, existingPoints,
          maxNumberOfPoints>>

---------------------------------------------------------------------------
(* Bounds of the model.                                                    *)

MaxMinimumDistance == 2
MaxExistingPoints == 2
MaxExcludedSections == 2
MaxCap == 2
MaxOutputPoints == 4

---------------------------------------------------------------------------
(* Program constants.                                                      *)

POINTS_PER_LOOP == 30

MAX_INT == 2147483647

eRectangle == "eRectangle"

eEllipse == "eEllipse"

---------------------------------------------------------------------------
(* Geometry primitives.                                                    *)

vector2di(x, y) == [X |-> x, Y |-> y]

dimension2du(w, h) == [Width |-> w, Height |-> h]

\* vector2di(-1, -1): the value of a grid cell no point was written to.
EmptyCell == vector2di(-1, -1)

\* a < b for two 32-bit values compared as unsigned, both given in their
\* signed reading.
ULess(a, b) ==
    IF (a < 0) = (b < 0) THEN a < b ELSE b < 0

\* InsideRectangle without the test against the near edges, the far edges
\* compared as signed values.
InsideRectangleUpperOnly(point, offset, dimensions) ==
    /\ point.X < offset.X + dimensions.Width
    /\ point.Y < offset.Y + dimensions.Height

\* InsideRectangle with the far edges counted as inside.
InsideRectangleClosed(point, offset, dimensions) ==
    /\ point.X >= offset.X
    /\ ~ULess(offset.X + dimensions.Width, point.X)
    /\ point.Y >= offset.Y
    /\ ~ULess(offset.Y + dimensions.Height, point.Y)

InsideRectangle(point, offset, dimensions) ==
    /\ point.X >= offset.X
    /\ ULess(point.X, offset.X + dimensions.Width)
    /\ point.Y >= offset.Y
    /\ ULess(point.Y, offset.Y + dimensions.Height)

\* otherPoint.getDistanceFrom(centerPoint) < minimumDistance, the distance
\* being the square root of the squared coordinate differences.
CloserThan(a, b, dist) ==
    (a.X - b.X) * (a.X - b.X) + (a.Y - b.Y) * (a.Y - b.Y) < dist * dist

---------------------------------------------------------------------------
(* The acceleration grid.                                                  *)

\* floor(n / (dist / sqrt(2))) for n >= 0 and dist >= 1.
FloorOverCellSize(n, dist) ==
    CHOOSE k \in 0..(2 * n) :
        /\ k * k * dist * dist <= 2 * n * n
        /\ (k + 1) * (k + 1) * dist * dist > 2 * n * n

\* CeilOverCellSize rounding down.
CeilOverCellSizeRoundingDown(n, dist) ==
    CHOOSE k \in 0..(2 * n) :
        /\ k * k * dist * dist <= 2 * n * n
        /\ (k + 1) * (k + 1) * dist * dist > 2 * n * n

\* ceil(n / (dist / sqrt(2))) for n >= 0 and dist >= 1.
CeilOverCellSize(n, dist) ==
    CHOOSE k \in 0..(2 * n + 1) :
        /\ k * k * dist * dist >= 2 * n * n
        /\ (k = 0 \/ (k - 1) * (k - 1) * dist * dist < 2 * n * n)

\* The implicit int cast of  coordinate / cellSize  truncates toward zero.
TileCoordinate(c, dist) ==
    IF c >= 0 THEN FloorOverCellSize(c, dist) ELSE 0 - FloorOverCellSize(0 - c, dist)

PointToGridTile(point, dist) ==
    vector2di(TileCoordinate(point.X, dist), TileCoordinate(point.Y, dist))

\* The cells the build allocated: pointGridHeight rows (first index), each
\* of pointGridWidth entries (second index), all set to (-1, -1).
NewPointGrid(pointGridWidth, pointGridHeight) ==
    [grid |-> [cell \in (0..(pointGridHeight - 1)) \X (0..(pointGridWidth - 1))
                   |-> EmptyCell],
     dimensions |-> dimension2du(pointGridWidth, pointGridHeight)]

\* pointGrid.grid[tile.X][tile.Y] addresses an allocated entry.
Allocated(grid, tile) == <<tile.X, tile.Y>> \in DOMAIN grid.grid

\* pointGrid.grid[gridTile.X][gridTile.Y] = point.  A write outside the
\* allocated entries is undefined behaviour; where the build survives it the
\* value lands outside the storage of the grid and the grid is unchanged.
WritePoint(grid, point, dist) ==
    LET gridTile == PointToGridTile(point, dist)
    IN  IF Allocated(grid, gridTile)
        THEN [grid EXCEPT !.grid[<<gridTile.X, gridTile.Y>>] = point]
        ELSE grid

WriteIsDefined(grid, point, dist) ==
    Allocated(grid, PointToGridTile(point, dist))

\* TilesAroundTile with the loop running over all 25 tiles of the block.
TilesAroundTileFullLoop(centerTile, grid) ==
    LET rowLength == 5
        halfRowLength == rowLength \div 2
        tileOf(tileNumber) ==
            vector2di(centerTile.X - halfRowLength + (tileNumber % rowLength),
                      centerTile.Y - halfRowLength + (tileNumber \div rowLength))
    IN  {tile \in {tileOf(tileNumber) : tileNumber \in (0..24) \ {4, 20}} :
            InsideRectangle(tile, vector2di(0, 0), grid.dimensions)}

\* The tiles GetPointsAroundTile reads: tileNumber 1..23 of the 5 by 5 block
\* around centerTile without 4 and 20, kept when inside pointGrid.dimensions.
TilesAroundTile(centerTile, grid) ==
    LET rowLength == 5
        halfRowLength == rowLength \div 2
        tileOf(tileNumber) ==
            vector2di(centerTile.X - halfRowLength + (tileNumber % rowLength),
                      centerTile.Y - halfRowLength + (tileNumber \div rowLength))
    IN  {tile \in {tileOf(tileNumber) : tileNumber \in (1..23) \ {4, 20}} :
            InsideRectangle(tile, vector2di(0, 0), grid.dimensions)}

\* GetPointsAroundTile reads an entry that was never allocated.
ReadsOutsideGrid(centerPoint, dist, grid) ==
    \E tile \in TilesAroundTile(PointToGridTile(centerPoint, dist), grid) :
        ~Allocated(grid, tile)

\* The points GetPointsAroundTile returns from allocated entries.
GetPointsAroundTile(centerTile, grid) ==
    {grid.grid[<<tile.X, tile.Y>>] :
        tile \in {t \in TilesAroundTile(centerTile, grid) : Allocated(grid, t)}}

\* The values InNeighborhood can return.  An entry read outside the
\* allocation holds an arbitrary point, which may or may not be close.
InNeighborhood(centerPoint, dist, grid) ==
    LET centerTile == PointToGridTile(centerPoint, dist)
        found == \E otherPoint \in GetPointsAroundTile(centerTile, grid) :
                    /\ otherPoint # EmptyCell
                    /\ CloserThan(otherPoint, centerPoint, dist)
    IN  IF found THEN {TRUE}
        ELSE IF ReadsOutsideGrid(centerPoint, dist, grid) THEN {TRUE, FALSE}
        ELSE {FALSE}

---------------------------------------------------------------------------
(* The random source.                                                      *)

\* int(CustomRandom::Range(size * 0.4f, size * 0.6f))
FirstPointRange(size) == ((4 * size) \div 10)..((6 * size) \div 10)

\* The unit squares [a, a+1) x [b, b+1) that hold a vector of length in
\* (dist, 2 * dist): the values of
\* (distanceFromCenter * cos(angle), distanceFromCenter * sin(angle)).
RandomOffsets(dist) ==
    LET nearest(a) == IF a >= 0 THEN a ELSE 0 - (a + 1)
        farthest(a) == IF a >= 0 THEN a + 1 ELSE 0 - a
    IN  {o \in ((0 - 2 * dist)..(2 * dist - 1)) \X ((0 - 2 * dist)..(2 * dist - 1)) :
            /\ nearest(o[1]) * nearest(o[1]) + nearest(o[2]) * nearest(o[2])
                    < 4 * dist * dist
            /\ farthest(o[1]) * farthest(o[1]) + farthest(o[2]) * farthest(o[2])
                    > dist * dist}

\* int(coordinate + offset) for an offset in (a, a+1): truncation toward zero.
TruncatedSum(coordinate, a) ==
    IF coordinate + a >= 0 THEN coordinate + a ELSE coordinate + a + 1

GenerateRandomPointAroundPoint(point, offset) ==
    vector2di(TruncatedSum(point.X, offset[1]), TruncatedSum(point.Y, offset[2]))

\* RandomOffsets for every minimumDistance of the model, computed once.
RandomOffsetsOf == [dist \in 1..(MaxMinimumDistance + 1) |-> RandomOffsets(dist)]

\* The points one call of GenerateRandomPointAroundPoint can return.
RandomPointsAroundPoint(point, dist) ==
    {GenerateRandomPointAroundPoint(point, offset) : offset \in RandomOffsetsOf[dist]}

---------------------------------------------------------------------------
(* Exclusion of map sections.                                              *)

MapSection(shape, centerTile, dimensions) ==
    [shape |-> shape, centerTile |-> centerTile, dimensions |-> dimensions]

\* InsideSection with an ellipse tested as its bounding rectangle.
InsideSectionBoundingBox(point, section) ==
    InsideRectangle(point,
                    vector2di(section.centerTile.X - (section.dimensions.Width \div 2),
                              section.centerTile.Y - (section.dimensions.Height \div 2)),
                    section.dimensions)

InsideSection(point, section) ==
    LET sectionOffset ==
            vector2di(section.centerTile.X - (section.dimensions.Width \div 2),
                      section.centerTile.Y - (section.dimensions.Height \div 2))
    IN  CASE section.shape = eRectangle ->
                InsideRectangle(point, sectionOffset, section.dimensions)
          [] section.shape = eEllipse -> FALSE
          [] OTHER -> FALSE

\* points without its element at position k: points.erase(pointIterator).
Erase(points, k) ==
    [n \in 1..(Len(points) - 1) |-> IF n < k THEN points[n] ELSE points[n + 1]]

\* The iterator loop advancing past the point that follows an erased one.
RECURSIVE ExcludeFromSkipping(_, _, _)
ExcludeFromSkipping(points, k, section) ==
    IF k > Len(points) THEN points
    ELSE IF InsideSection(points[k], section)
         THEN ExcludeFromSkipping(Erase(points, k), k + 1, section)
         ELSE ExcludeFromSkipping(points, k + 1, section)

\* The iterator loop of ExcludeSection from position k on: erase keeps the
\* position, which then denotes the next point.
RECURSIVE ExcludeFrom(_, _, _)
ExcludeFrom(points, k, section) ==
    IF k > Len(points) THEN points
    ELSE IF InsideSection(points[k], section)
         THEN ExcludeFrom(Erase(points, k), k, section)
         ELSE ExcludeFrom(points, k + 1, section)

ExcludeSection(points, section) == ExcludeFrom(points, 1, section)

---------------------------------------------------------------------------
(* The arguments of a call.                                                *)

\* Sequences over S of length at most n.
SeqsUpTo(S, n) == UNION {[1..m -> S] : m \in 0..n}

MapPoints(dimensions) ==
    {vector2di(x, y) : x \in 0..(dimensions.Width - 1),
                       y \in 0..(dimensions.Height - 1)}

\* The maps of the model for one minimumDistance: every map of sides up to
\* minimumDistance + 1, and the strip of length minimumDistance + 2.
MapChoices(dist) ==
    {dimension2du(w, h) : w \in 1..(dist + 1), h \in 1..(dist + 1)}
        \cup {dimension2du(1, dist + 2)}

\* The points existingPoints is drawn from: the first points of column 0,
\* which share an acceleration-grid cell when minimumDistance >= 2.
SeedChoices(dimensions) ==
    {point \in MapPoints(dimensions) : point.X = 0 /\ point.Y <= 1}

\* The sections excludedSections is drawn from: both shapes, a section on
\* the map and one that
\* overlaps its corner and one that lies wholly left of and below it.
SectionChoices ==
    {MapSection(shape, vector2di(1, 1), dimension2du(1, 2)) :
        shape \in {eRectangle, eEllipse}}
        \cup {MapSection(eRectangle, vector2di(c, c), dimension2du(2, 2)) :
                c \in {-2, 0}}

\* maxNumberOfPoints: supplied, or the default of the declaration.
CapChoices == (1..MaxCap) \cup {MAX_INT}

ValidArguments ==
    /\ minimumDistance >= 1
    /\ mapDimensions.Width >= 1
    /\ mapDimensions.Height >= 1
    /\ \A n \in 1..Len(existingPoints) :
            existingPoints[n] \in MapPoints(mapDimensions)

InitLocals ==
    /\ outputList = << >>
    /\ processQueue = << >>
    /\ pointGrid = NewPointGrid(0, 0)
    /\ numberOfPoints = 0
    /\ currentPoint = EmptyCell
    /\ i = 0
    /\ sectionIndex = 1
    /\ appended = << >>
    /\ pc = "start"

\* The build trapped on an undefined access: the call is gone and its
\* locals with it, nothing is returned.
Crashed ==
    /\ outputList' = << >>
    /\ processQueue' = << >>
    /\ pointGrid' = NewPointGrid(0, 0)
    /\ numberOfPoints' = 0
    /\ currentPoint' = EmptyCell
    /\ i' = 0
    /\ sectionIndex' = 1
    /\ appended' = << >>
    /\ pc' = "crashed"

---------------------------------------------------------------------------
(* BuildQueue: the data of the queue and of its items.                     *)

MaxQueueCapacity == 3
MaxItems == 4
MaxQueueTime == 2
MaxDeltaTime == 2

\* The IQueueItem objects a caller can hand to the queue.
Items == 1..MaxItems

\* A float: a number, or the value no comparison holds of.
Float(value) == [nan |-> FALSE, value |-> value]
NaN == [nan |-> TRUE, value |-> 0]

\* a += b on a float and a frame delta time.
FloatAdd(a, b) == IF a.nan THEN a ELSE Float(a.value + b)

\* a >= b on a float and a queue time.
FloatGreaterEqual(a, b) == ~a.nan /\ a.value >= b

\* _currentItemTimer has no initializer and the constructor does not set
\* it: the values construction can leave in it.
UninitializedFloats == {NaN} \cup {Float(value) : value \in (0 - 1)..MaxQueueTime}

\* A call of the public interface as the caller sees it: the item and what
\* its OnBuildQueueStart evaluates to, or the frame delta time; whether
\* OnBuildQueueStart was invoked; the value returned.
Call(op, item, accepts, deltaTime, started, result) ==
    [op |-> op, item |-> item, accepts |-> accepts, deltaTime |-> deltaTime,
     started |-> started, result |-> result]

NoCall == Call("none", 0, FALSE, 0, FALSE, FALSE)

\* No BuildQueue is in use.
NoBuildQueue ==
    /\ _queueCapacity = 0
    /\ _currentItemTimer = Float(0)
    /\ _queue = << >>
    /\ _queueIndex = << >>
    /\ queueTime = [item \in Items |-> 1]
    /\ deleted = {}
    /\ cancelCalls = [item \in Items |-> 0]
    /\ finishCalls = [item \in Items |-> 0]
    /\ enqueueOrder = << >>
    /\ finishOrder = << >>
    /\ lastCall = NoCall

---------------------------------------------------------------------------
(* GameWorld: the data of the update loop.                                 *)

MaxObjects == 3

\* The IUpdatable objects that may be constructed.
Objects == 1..MaxObjects

nullptr == 0

\* An Add or Remove as the caller sees it.
WorldCall(op, object, result) == [op |-> op, object |-> object, result |-> result]

\* GameWorld::GameWorld(): both lists empty, no UpdateAll in progress.
NewGameWorld ==
    /\ _addList = << >>
    /\ _updateList = << >>
    /\ iterator = 1
    /\ worldPc = "idle"
    /\ constructed = {}
    /\ removed = {}
    /\ updatedInFrame = [object \in Objects |-> 0]
    /\ updatedSinceAdd = {}
    /\ listAtBegin = {}
    /\ worldCall = WorldCall("none", nullptr, FALSE)

---------------------------------------------------------------------------
(* MultiSelector: the data of a GetObjectsInArea call.                     *)

MaxGridNodes == 3
MaxLevelObjects == 3

\* The LevelObject pointers; a grid node without a level object holds
\* NoLevelObject.
LevelObjects == 1..MaxLevelObjects

NoLevelObject == 0

eAdd == "eAdd"

eSubtract == "eSubtract"

\* No GetObjectsInArea call is made.
NoSelector ==
    /\ gridNodes = << >>
    /\ objects = << >>
    /\ filterFunction = {}
    /\ mode = eAdd
    /\ filtered = {}
    /\ deselected = {}
    /\ objectsAtCall = << >>
    /\ selectorPc = "idle"

\* No GetPointsAroundTile call is made on its own.
NoScan ==
    /\ scanCenter = EmptyCell
    /\ scanGrid = NewPointGrid(0, 0)
    /\ scanTiles = {}
    /\ scanPc = "idle"

---------------------------------------------------------------------------
(* GeneratePoints: the arguments and the state at entry.                   *)

\* Calls that vary the distance, the map, the existing points and the cap.
InitGeneration ==
    /\ minimumDistance \in 1..MaxMinimumDistance
    /\ mapDimensions \in MapChoices(minimumDistance)
    /\ existingPoints \in SeqsUpTo(SeedChoices(mapDimensions), MaxExistingPoints)
    /\ excludedSections = << >>
    /\ maxNumberOfPoints \in CapChoices

\* Calls that vary the excluded sections, on the smallest map that returns
\* several points.
InitExclusion ==
    /\ minimumDistance = 1
    /\ mapDimensions = dimension2du(2, 2)
    /\ existingPoints = << >>
    /\ excludedSections \in SeqsUpTo(SectionChoices, MaxExcludedSections) \ {<< >>}
    /\ maxNumberOfPoints = MaxCap

\* Calls for the maps that lie inside one cell of the acceleration grid at
\* the distance behind MaxMinimumDistance, without existing points.
InitSingleCell ==
    /\ minimumDistance = MaxMinimumDistance + 1
    /\ mapDimensions \in {dimension2du(w, h) : w \in 1..2, h \in 1..2}
    /\ existingPoints = << >>
    /\ excludedSections = << >>
    /\ maxNumberOfPoints \in CapChoices

Init ==
    /\ InitGeneration \/ InitExclusion \/ InitSingleCell
    /\ InitLocals
    /\ NoBuildQueue
    /\ NewGameWorld
    /\ NoSelector
    /\ NoScan

---------------------------------------------------------------------------
(* The steps of GeneratePoints.                                            *)

\* The loop over existingPoints: each point is written to its grid tile, a
\* later point replacing an earlier one on the same tile.
RECURSIVE WritePoints(_, _, _, _)
WritePoints(grid, points, n, dist) ==
    IF n > Len(points) THEN grid
    ELSE WritePoints(WritePoint(grid, points[n], dist), points, n + 1, dist)

\* The grid GeneratePoints allocates for its arguments.
AllocatedGrid ==
    NewPointGrid(CeilOverCellSize(mapDimensions.Width, minimumDistance),
                 CeilOverCellSize(mapDimensions.Height, minimumDistance))

\* Initialize with the existing points put on the output list as well.
InitializeIntoOutputList ==
    /\ pc = "start"
    /\ IF existingPoints = << >>
       THEN \E x \in FirstPointRange(mapDimensions.Width),
               y \in FirstPointRange(mapDimensions.Height) :
                LET firstPoint == vector2di(x, y)
                IN  /\ processQueue' = <<firstPoint>>
                    /\ outputList' = <<firstPoint>>
                    /\ pointGrid' = WritePoint(AllocatedGrid, firstPoint, minimumDistance)
       ELSE /\ processQueue' = existingPoints
            /\ outputList' = existingPoints
            /\ pointGrid' = WritePoints(AllocatedGrid, existingPoints, 1, minimumDistance)
    /\ appended' = outputList'
    /\ numberOfPoints' = 0
    /\ pc' = "while"
    /\ UNCHANGED <<outsideGeneratePoints, args, currentPoint, i, sectionIndex>>

\* Initialization up to the declaration of numberOfPoints.
Initialize ==
    /\ pc = "start"
    /\ IF existingPoints = << >>
       THEN \E x \in FirstPointRange(mapDimensions.Width),
               y \in FirstPointRange(mapDimensions.Height) :
                LET firstPoint == vector2di(x, y)
                IN  /\ processQueue' = <<firstPoint>>
                    /\ outputList' = <<firstPoint>>
                    /\ pointGrid' = WritePoint(AllocatedGrid, firstPoint, minimumDistance)
       ELSE /\ processQueue' = existingPoints
            /\ outputList' = << >>
            /\ pointGrid' = WritePoints(AllocatedGrid, existingPoints, 1, minimumDistance)
    /\ appended' = outputList'
    /\ numberOfPoints' = 0
    /\ pc' = "while"
    /\ UNCHANGED <<outsideGeneratePoints, args, currentPoint, i, sectionIndex>>

\* The write of the first point or of an existing point addresses an entry
\* that was never allocated, and the build traps.
UndefinedSeedWrite ==
    /\ pc = "start"
    /\ IF existingPoints = << >>
       THEN \E x \in FirstPointRange(mapDimensions.Width),
               y \in FirstPointRange(mapDimensions.Height) :
                ~WriteIsDefined(AllocatedGrid, vector2di(x, y), minimumDistance)
       ELSE \E n \in 1..Len(existingPoints) :
                ~WriteIsDefined(AllocatedGrid, existingPoints[n], minimumDistance)
    /\ Crashed
    /\ UNCHANGED <<outsideGeneratePoints, args>>

\* while (!processQueue.empty() && numberOfPoints < maxNumberOfPoints)
LoopHead ==
    /\ pc = "while"
    /\ IF processQueue # << >> /\ numberOfPoints < maxNumberOfPoints
       THEN /\ currentPoint' = Head(processQueue)
            /\ i' = 0
            /\ pc' = "for"
       ELSE /\ pc' = "exclude"
            /\ UNCHANGED <<currentPoint, i>>
    /\ UNCHANGED <<outsideGeneratePoints, args, outputList, processQueue, pointGrid, numberOfPoints,
                   sectionIndex, appended>>

\* i++ and the test i < POINTS_PER_LOOP.
NextIteration ==
    /\ i' = i + 1
    /\ pc' = IF i + 1 < POINTS_PER_LOOP THEN "for" ELSE "pop"

\* The candidate is outside the map or too close to a point of the grid.
RejectCandidate ==
    /\ pc = "for"
    /\ IF \E newPoint \in RandomPointsAroundPoint(currentPoint, minimumDistance) :
            \/ ~InsideRectangle(newPoint, vector2di(0, 0), mapDimensions)
            \/ TRUE \in InNeighborhood(newPoint, minimumDistance, pointGrid)
       THEN NextIteration
       ELSE FALSE
    /\ UNCHANGED <<outsideGeneratePoints, args, outputList, processQueue, pointGrid, numberOfPoints,
                   currentPoint, sectionIndex, appended>>

\* AcceptCandidate without the break of the capped mode.
AcceptCandidateWithoutBreak ==
    /\ pc = "for"
    /\ Len(outputList) < MaxOutputPoints
    /\ \E newPoint \in RandomPointsAroundPoint(currentPoint, minimumDistance) :
          /\ InsideRectangle(newPoint, vector2di(0, 0), mapDimensions)
          /\ FALSE \in InNeighborhood(newPoint, minimumDistance, pointGrid)
          /\ processQueue' = Append(processQueue, newPoint)
          /\ outputList' = Append(outputList, newPoint)
          /\ appended' = Append(appended, newPoint)
          /\ pointGrid' = WritePoint(pointGrid, newPoint, minimumDistance)
    /\ numberOfPoints' = numberOfPoints + 1
    /\ NextIteration
    /\ UNCHANGED <<outsideGeneratePoints, args, currentPoint, sectionIndex>>

\* The candidate is inside the map and InNeighborhood returned false.
AcceptCandidate ==
    /\ pc = "for"
    /\ Len(outputList) < MaxOutputPoints
    /\ \E newPoint \in RandomPointsAroundPoint(currentPoint, minimumDistance) :
          /\ InsideRectangle(newPoint, vector2di(0, 0), mapDimensions)
          /\ FALSE \in InNeighborhood(newPoint, minimumDistance, pointGrid)
          /\ processQueue' = Append(processQueue, newPoint)
          /\ outputList' = Append(outputList, newPoint)
          /\ appended' = Append(appended, newPoint)
          /\ pointGrid' = WritePoint(pointGrid, newPoint, minimumDistance)
    /\ numberOfPoints' = numberOfPoints + 1
    /\ IF maxNumberOfPoints < MAX_INT
       THEN pc' = "pop" /\ i' = i
       ELSE NextIteration
    /\ UNCHANGED <<outsideGeneratePoints, args, currentPoint, sectionIndex>>

\* A candidate inside the map makes GetPointsAroundTile read, or the
\* acceptance write, an entry that was never allocated, and the build traps.
UndefinedAccess ==
    /\ pc = "for"
    /\ IF \E newPoint \in RandomPointsAroundPoint(currentPoint, minimumDistance) :
            /\ InsideRectangle(newPoint, vector2di(0, 0), mapDimensions)
            /\ \/ ReadsOutsideGrid(newPoint, minimumDistance, pointGrid)
               \/ ~WriteIsDefined(pointGrid, newPoint, minimumDistance)
       THEN Crashed
       ELSE FALSE
    /\ UNCHANGED <<outsideGeneratePoints, args>>

\* !maxNumberOfPoints < MAX_INT: the negation applies to maxNumberOfPoints,
\* its bool result is promoted to int and compared with MAX_INT.
PopCondition(maxNumber) ==
    LET negated == IF maxNumber = 0 THEN 1 ELSE 0
    IN  negated < MAX_INT

\* PopFront taking the point pushed last instead of the front.
PopFrontFromBack ==
    /\ pc = "pop"
    /\ processQueue' = IF PopCondition(maxNumberOfPoints)
                       THEN SubSeq(processQueue, 1, Len(processQueue) - 1)
                       ELSE processQueue
    /\ pc' = "while"
    /\ UNCHANGED <<outsideGeneratePoints, args, outputList, pointGrid, numberOfPoints, currentPoint, i,
                   sectionIndex, appended>>

PopFront ==
    /\ pc = "pop"
    /\ processQueue' = IF PopCondition(maxNumberOfPoints)
                       THEN Tail(processQueue) ELSE processQueue
    /\ pc' = "while"
    /\ UNCHANGED <<outsideGeneratePoints, args, outputList, pointGrid, numberOfPoints, currentPoint, i,
                   sectionIndex, appended>>

\* One pass of  for (MapSection section : excludedSections).
ExcludeNextSection ==
    /\ pc = "exclude"
    /\ sectionIndex <= Len(excludedSections)
    /\ outputList' = ExcludeSection(outputList, excludedSections[sectionIndex])
    /\ sectionIndex' = sectionIndex + 1
    /\ UNCHANGED <<outsideGeneratePoints, args, processQueue, pointGrid, numberOfPoints, currentPoint, i,
                   appended, pc>>

\* return outputList;
Return ==
    /\ pc = "exclude"
    /\ sectionIndex > Len(excludedSections)
    /\ pc' = "done"
    /\ UNCHANGED <<outsideGeneratePoints, args, outputList, processQueue, pointGrid, numberOfPoints,
                   currentPoint, i, sectionIndex, appended>>

Next ==
    \/ Initialize
    \/ UndefinedSeedWrite
    \/ LoopHead
    \/ RejectCandidate
    \/ AcceptCandidate
    \/ UndefinedAccess
    \/ PopFront
    \/ ExcludeNextSection
    \/ Return

Spec == Init /\ [][Next]_vars

---------------------------------------------------------------------------
(* Properties of the returned list.                                        *)

\* The call returned outputList.
Returned == pc = "done"

maxNumberSupplied == maxNumberOfPoints < MAX_INT

\* The squared Euclidean distance of two points.
SquaredDistance(a, b) ==
    (a.X - b.X) * (a.X - b.X) + (a.Y - b.Y) * (a.Y - b.Y)

\* C1: every two distinct points of the returned list are at Euclidean
\* distance >= minimumDistance from each other.
C1_MinimumDistance ==
    Returned =>
        \A m, n \in 1..Len(outputList) :
            outputList[m] # outputList[n] =>
                SquaredDistance(outputList[m], outputList[n])
                    >= minimumDistance * minimumDistance

\* C2: every returned point, the synthesized first point as well as every
\* accepted candidate, has 0 <= x < Width and 0 <= y < Height.
C2_Bounds ==
    \A n \in 1..Len(outputList) :
        /\ 0 <= outputList[n].X
        /\ outputList[n].X < mapDimensions.Width
        /\ 0 <= outputList[n].Y
        /\ outputList[n].Y < mapDimensions.Height

\* A call without existing points returned its first point and at least one
\* accepted candidate.
C2_Witness ==
    /\ Returned
    /\ existingPoints = << >>
    /\ numberOfPoints >= 1
    /\ Len(outputList) = numberOfPoints + 1

\* C3: every returned point is at distance >= minimumDistance from every
\* point of existingPoints, so that no existing point is returned.  Stated
\* for the square maps, where every access of the grid is defined.
C3_SeedDistance ==
    (Returned /\ mapDimensions.Width = mapDimensions.Height) =>
        \A n \in 1..Len(outputList), k \in 1..Len(existingPoints) :
            SquaredDistance(outputList[n], existingPoints[k])
                >= minimumDistance * minimumDistance

\* offset <= point < offset + dimensions on both axes, offset = center -
\* dimensions / 2, in unbounded integers.
InsideSectionBounds(point, section) ==
    LET offsetX == section.centerTile.X - (section.dimensions.Width \div 2)
        offsetY == section.centerTile.Y - (section.dimensions.Height \div 2)
    IN  /\ offsetX <= point.X
        /\ point.X < offsetX + section.dimensions.Width
        /\ offsetY <= point.Y
        /\ point.Y < offsetY + section.dimensions.Height

\* C4: no point of the returned list lies inside a rectangle entry of
\* excludedSections.
C4_ExclusionZone ==
    Returned =>
        \A k \in 1..Len(excludedSections), n \in 1..Len(outputList) :
            excludedSections[k].shape = eRectangle =>
                ~InsideSectionBounds(outputList[n], excludedSections[k])

\* A call returned after a rectangle section on the map removed some of the
\* generated points and kept others.
C4_Witness ==
    /\ Returned
    /\ excludedSections = <<MapSection(eRectangle, vector2di(1, 1), dimension2du(1, 2))>>
    /\ Len(outputList) >= 1
    /\ Len(outputList) < numberOfPoints + 1

\* C5: with maxNumberOfPoints = N supplied the returned list has at most N
\* points, with and without existing points.
C5_Cap ==
    (Returned /\ maxNumberSupplied) => Len(outputList) <= maxNumberOfPoints

\* C6: with maxNumberOfPoints supplied the front of the process queue is
\* never popped and every candidate is generated around the first element
\* of existingPoints.
C6_OnlyAroundFirstPoint ==
    (maxNumberSupplied /\ existingPoints # << >>) =>
        /\ pc \in {"while", "for", "pop"} =>
                /\ processQueue # << >>
                /\ Head(processQueue) = existingPoints[1]
        /\ pc = "for" => currentPoint = existingPoints[1]

\* C7: the generation loop is left after finitely many iterations for every
\* random sequence.  Every iteration pops one point, so the loop runs once
\* per pushed point; it is bounded for every random sequence exactly when
\* the number of accepted points is, and the bound the finite map gives is
\* its number of coordinates.
C7_BoundedGeneration ==
    numberOfPoints <= mapDimensions.Width * mapDimensions.Height

\* C8: the returned list is a function of the arguments and of the values
\* the random source returns: in every state, for every point the random
\* source can make the next candidate, the outcome of the neighbourhood
\* check is determined.
C8_Determined ==
    pc = "for" =>
        \A newPoint \in RandomPointsAroundPoint(currentPoint, minimumDistance) :
            InsideRectangle(newPoint, vector2di(0, 0), mapDimensions) =>
                Cardinality(InNeighborhood(newPoint, minimumDistance, pointGrid)) = 1

---------------------------------------------------------------------------
(* Calls with arguments outside the contract.                              *)

\* Existing points on and around a map.
UncheckedSeedChoices(dimensions) ==
    {vector2di(x, y) : x \in {-1, 0, dimensions.Width}, y \in {0, dimensions.Height}}

InitUnchecked ==
    /\ minimumDistance \in 1..MaxMinimumDistance
    /\ mapDimensions \in {dimension2du(w, h) : w \in 0..2, h \in 0..2}
    /\ existingPoints \in SeqsUpTo(UncheckedSeedChoices(mapDimensions), 1)
    /\ excludedSections \in
            {<< >>, <<MapSection(eRectangle, vector2di(1, 1), dimension2du(1, 2))>>}
    /\ maxNumberOfPoints \in {MaxCap, MAX_INT}
    /\ ~ValidArguments
    /\ InitLocals
    /\ NoBuildQueue
    /\ NewGameWorld
    /\ NoSelector
    /\ NoScan

SpecUnchecked == InitUnchecked /\ [][Next]_vars

\* C9: a non-positive map dimension or an existing point outside the map
\* ends the call before the acceleration grid is allocated or written, and
\* no point list is returned.
C9_ArgumentsValidated ==
    ~ValidArguments =>
        /\ pc \in {"start", "crashed"}
        /\ pointGrid = NewPointGrid(0, 0)

\* C10: a section of shape eEllipse leaves the output list as it is, the
\* loop goes on to the next section, and a call that returns has applied
\* every rectangle section.
C10_EllipseRemovesNothing ==
    /\ [][(/\ pc = "exclude"
           /\ sectionIndex <= Len(excludedSections)
           /\ excludedSections[sectionIndex].shape = eEllipse)
            => (/\ outputList' = outputList
                /\ sectionIndex' = sectionIndex + 1
                /\ pc' = "exclude")]_vars
    /\ [](Returned =>
            \A k \in 1..Len(excludedSections), n \in 1..Len(outputList) :
                excludedSections[k].shape = eRectangle =>
                    ~InsideRectangle(outputList[n],
                        vector2di(excludedSections[k].centerTile.X
                                    - (excludedSections[k].dimensions.Width \div 2),
                                  excludedSections[k].centerTile.Y
                                    - (excludedSections[k].dimensions.Height \div 2)),
                        excludedSections[k].dimensions))

\* A call returned a point inside the bounding rectangle of an ellipse
\* section, after the rectangle section behind it removed another point.
C10_Witness ==
    /\ Returned
    /\ excludedSections = <<MapSection(eEllipse, vector2di(1, 1), dimension2du(1, 2)),
                            MapSection(eRectangle, vector2di(0, 0), dimension2du(2, 2))>>
    /\ \E n \in 1..Len(outputList) :
            InsideSectionBounds(outputList[n], excludedSections[1])
    /\ Len(outputList) < numberOfPoints + 1

---------------------------------------------------------------------------
(* BuildQueue: construction and the public calls.  A call runs to its      *)
(* return in one step; the HeadsUpDisplay refreshes change no state of the *)
(* queue.  The item handed to Enqueue is a live object the queue does not  *)
(* own yet: the queue deletes what it accepted.                            *)

\* No GeneratePoints call is in progress.
NoGeneratePoints ==
    /\ minimumDistance = 1
    /\ mapDimensions = dimension2du(1, 1)
    /\ excludedSections = << >>
    /\ existingPoints = << >>
    /\ maxNumberOfPoints = MAX_INT
    /\ outputList = << >>
    /\ processQueue = << >>
    /\ pointGrid = NewPointGrid(0, 0)
    /\ numberOfPoints = 0
    /\ currentPoint = EmptyCell
    /\ i = 0
    /\ sectionIndex = 1
    /\ appended = << >>
    /\ pc = "idle"

\* BuildQueue::BuildQueue(queueCapacity); the items exist with their queue
\* times.
InitBuildQueue ==
    /\ _queueCapacity \in 0..MaxQueueCapacity
    /\ _currentItemTimer \in UninitializedFloats
    /\ _queue = << >>
    /\ _queueIndex = << >>
    /\ queueTime \in [Items -> 1..MaxQueueTime]
    /\ deleted = {}
    /\ cancelCalls = [item \in Items |-> 0]
    /\ finishCalls = [item \in Items |-> 0]
    /\ enqueueOrder = << >>
    /\ finishOrder = << >>
    /\ lastCall = NoCall
    /\ NoGeneratePoints
    /\ NewGameWorld
    /\ NoSelector
    /\ NoScan

\* The items stored in a queue.
Queued(queue) == {queue[position] : position \in 1..Len(queue)}

\* _queue.size() + 1 > _queueCapacity, compared as unsigned numbers.
QueueFullLate(size, capacity) == ULess(capacity, size)

QueueFull(size, capacity) == ULess(capacity, size + 1)

\* std::find(_queue.begin(), _queue.end(), item) as a position from 1,
\* Len(queue) + 1 for end().
FindBehindFront(queue, item) ==
    IF \E position \in 2..Len(queue) : queue[position] = item
    THEN CHOOSE position \in 2..Len(queue) :
            /\ queue[position] = item
            /\ \A earlier \in 2..(position - 1) : queue[earlier] # item
    ELSE Len(queue) + 1

Find(queue, item) ==
    IF \E position \in 1..Len(queue) : queue[position] = item
    THEN CHOOSE position \in 1..Len(queue) :
            /\ queue[position] = item
            /\ \A earlier \in 1..(position - 1) : queue[earlier] # item
    ELSE Len(queue) + 1

\* DecrementIndices: _queueIndex-- on the item at every index i with
\* removedItemIndex + 1 <= i < size, once per such index.
DecrementIndicesSkippingFirst(queue, index, removedItemIndex) ==
    [item \in DOMAIN index |->
        index[item] - Cardinality({position \in 1..Len(queue) :
                                        /\ position - 1 >= removedItemIndex + 2
                                        /\ queue[position] = item})]

DecrementIndices(queue, index, removedItemIndex) ==
    [item \in DOMAIN index |->
        index[item] - Cardinality({position \in 1..Len(queue) :
                                        /\ position - 1 >= removedItemIndex + 1
                                        /\ queue[position] = item})]

\* IQueueItem::GetQueueIndex of an item with the given indices.
GetQueueIndex(index, item) == index[item] + 1

\* delete item: its fields are gone.
Delete(index, item) == [other \in (DOMAIN index) \ {item} |-> index[other]]

\* One more invocation of a callback of the item.
Invoked(calls, item) == [calls EXCEPT ![item] = calls[item] + 1]

\* Enqueue(item, finishFunction), with OnBuildQueueStart evaluating to
\* accepts; the capacity test comes first.
EnqueueStartingFirst(item, accepts) ==
    /\ item \in Items \ (Queued(_queue) \cup deleted)
    /\ IF ~accepts \/ QueueFull(Len(_queue), _queueCapacity)
       THEN /\ lastCall' = Call("Enqueue", item, accepts, 0, TRUE, FALSE)
            /\ UNCHANGED <<_queue, _queueIndex, enqueueOrder>>
       ELSE /\ _queueIndex' = [other \in (DOMAIN _queueIndex) \cup {item} |->
                                  IF other = item THEN Len(_queue)
                                  ELSE _queueIndex[other]]
            /\ _queue' = Append(_queue, item)
            /\ enqueueOrder' = Append(enqueueOrder, item)
            /\ lastCall' = Call("Enqueue", item, accepts, 0, TRUE, TRUE)
    /\ UNCHANGED <<_queueCapacity, _currentItemTimer, queueTime, deleted,
                   cancelCalls, finishCalls, finishOrder, outsideBuildQueue>>

Enqueue(item, accepts) ==
    /\ item \in Items \ (Queued(_queue) \cup deleted)
    /\ IF QueueFull(Len(_queue), _queueCapacity)
       THEN /\ lastCall' = Call("Enqueue", item, accepts, 0, FALSE, FALSE)
            /\ UNCHANGED <<_queue, _queueIndex, enqueueOrder>>
       ELSE IF ~accepts
               THEN /\ lastCall' = Call("Enqueue", item, accepts, 0, TRUE, FALSE)
                    /\ UNCHANGED <<_queue, _queueIndex, enqueueOrder>>
               ELSE /\ _queueIndex' =
                            [other \in (DOMAIN _queueIndex) \cup {item} |->
                                IF other = item THEN Len(_queue)
                                ELSE _queueIndex[other]]
                    /\ _queue' = Append(_queue, item)
                    /\ enqueueOrder' = Append(enqueueOrder, item)
                    /\ lastCall' = Call("Enqueue", item, accepts, 0, TRUE, TRUE)
    /\ UNCHANGED <<_queueCapacity, _currentItemTimer, queueTime, deleted,
                   cancelCalls, finishCalls, finishOrder, outsideBuildQueue>>

\* Cancel(item); the pointer may be of an item the queue never held or
\* has deleted, it is only compared.
CancelCallingFinish(item) ==
    LET found == Find(_queue, item) IN
    /\ item \in Items
    /\ IF found # Len(_queue) + 1
       THEN /\ _currentItemTimer' = IF found = 1 THEN Float(0) ELSE _currentItemTimer
            /\ cancelCalls' = Invoked(cancelCalls, _queue[found])
            /\ finishCalls' = Invoked(finishCalls, _queue[found])
            /\ finishOrder' = Append(finishOrder, _queue[found])
            /\ _queueIndex' =
                    Delete(DecrementIndices(_queue, _queueIndex,
                                            _queueIndex[_queue[found]]),
                           _queue[found])
            /\ deleted' = deleted \cup {_queue[found]}
            /\ _queue' = Erase(_queue, found)
            /\ lastCall' = Call("Cancel", item, FALSE, 0, FALSE, TRUE)
       ELSE /\ lastCall' = Call("Cancel", item, FALSE, 0, FALSE, FALSE)
            /\ UNCHANGED <<_currentItemTimer, cancelCalls, finishCalls,
                           finishOrder, _queueIndex, deleted, _queue>>
    /\ UNCHANGED <<_queueCapacity, queueTime, enqueueOrder,
                   outsideBuildQueue>>

\* Cancel without the reset of the timer.
CancelKeepingTimer(item) ==
    LET found == Find(_queue, item) IN
    /\ item \in Items
    /\ IF found # Len(_queue) + 1
       THEN /\ _currentItemTimer' = _currentItemTimer
            /\ cancelCalls' = Invoked(cancelCalls, _queue[found])
            /\ _queueIndex' =
                    Delete(DecrementIndices(_queue, _queueIndex,
                                            _queueIndex[_queue[found]]),
                           _queue[found])
            /\ deleted' = deleted \cup {_queue[found]}
            /\ _queue' = Erase(_queue, found)
            /\ lastCall' = Call("Cancel", item, FALSE, 0, FALSE, TRUE)
       ELSE /\ lastCall' = Call("Cancel", item, FALSE, 0, FALSE, FALSE)
            /\ UNCHANGED <<_currentItemTimer, cancelCalls, _queueIndex,
                           deleted, _queue>>
    /\ UNCHANGED <<_queueCapacity, queueTime, finishCalls,
                   enqueueOrder, finishOrder, outsideBuildQueue>>

Cancel(item) ==
    LET found == Find(_queue, item) IN
    /\ item \in Items
    /\ IF found # Len(_queue) + 1
       THEN /\ _currentItemTimer' = IF found = 1 THEN Float(0) ELSE _currentItemTimer
            /\ cancelCalls' = Invoked(cancelCalls, _queue[found])
            /\ _queueIndex' =
                    Delete(DecrementIndices(_queue, _queueIndex,
                                            _queueIndex[_queue[found]]),
                           _queue[found])
            /\ deleted' = deleted \cup {_queue[found]}
            /\ _queue' = Erase(_queue, found)
            /\ lastCall' = Call("Cancel", item, FALSE, 0, FALSE, TRUE)
       ELSE /\ lastCall' = Call("Cancel", item, FALSE, 0, FALSE, FALSE)
            /\ UNCHANGED <<_currentItemTimer, cancelCalls, _queueIndex,
                           deleted, _queue>>
    /\ UNCHANGED <<_queueCapacity, queueTime, finishCalls,
                   enqueueOrder, finishOrder, outsideBuildQueue>>

\* Update with the time beyond the queue time of the popped item kept.
UpdateCarryingSurplus(deltaTime) ==
    /\ deltaTime \in 1..MaxDeltaTime
    /\ lastCall' = Call("Update", 0, FALSE, deltaTime, FALSE, FALSE)
    /\ IF Len(_queue) = 0
       THEN UNCHANGED <<_currentItemTimer, _queue, _queueIndex, deleted,
                        finishCalls, finishOrder>>
       ELSE IF FloatGreaterEqual(FloatAdd(_currentItemTimer, deltaTime),
                                 queueTime[Head(_queue)])
            THEN /\ finishCalls' = Invoked(finishCalls, Head(_queue))
                 /\ finishOrder' = Append(finishOrder, Head(_queue))
                 /\ _queueIndex' =
                        Delete(DecrementIndices(_queue, _queueIndex, 0),
                               Head(_queue))
                 /\ deleted' = deleted \cup {Head(_queue)}
                 /\ _queue' = Erase(_queue, 1)
                 /\ _currentItemTimer' =
                        Float(FloatAdd(_currentItemTimer, deltaTime).value
                                - queueTime[Head(_queue)])
            ELSE /\ _currentItemTimer' = FloatAdd(_currentItemTimer, deltaTime)
                 /\ UNCHANGED <<_queue, _queueIndex, deleted, finishCalls,
                                finishOrder>>
    /\ UNCHANGED <<_queueCapacity, queueTime, cancelCalls,
                   enqueueOrder, outsideBuildQueue>>

\* Update() in a frame whose GameTime::GetDeltaTime() is deltaTime; the
\* branch taken at the timer test is PopCurrentItem and the reset.
Update(deltaTime) ==
    /\ deltaTime \in 1..MaxDeltaTime
    /\ lastCall' = Call("Update", 0, FALSE, deltaTime, FALSE, FALSE)
    /\ IF Len(_queue) = 0
       THEN UNCHANGED <<_currentItemTimer, _queue, _queueIndex, deleted,
                        finishCalls, finishOrder>>
       ELSE IF FloatGreaterEqual(FloatAdd(_currentItemTimer, deltaTime),
                                 queueTime[Head(_queue)])
            THEN /\ finishCalls' = Invoked(finishCalls, Head(_queue))
                 /\ finishOrder' = Append(finishOrder, Head(_queue))
                 /\ _queueIndex' =
                        Delete(DecrementIndices(_queue, _queueIndex, 0),
                               Head(_queue))
                 /\ deleted' = deleted \cup {Head(_queue)}
                 /\ _queue' = Erase(_queue, 1)
                 /\ _currentItemTimer' = Float(0)
            ELSE /\ _currentItemTimer' = FloatAdd(_currentItemTimer, deltaTime)
                 /\ UNCHANGED <<_queue, _queueIndex, deleted, finishCalls,
                                finishOrder>>
    /\ UNCHANGED <<_queueCapacity, queueTime, cancelCalls,
                   enqueueOrder, outsideBuildQueue>>

EnqueueCall == \E item \in Items, accepts \in BOOLEAN : Enqueue(item, accepts)

CancelCall == \E item \in Items : Cancel(item)

UpdateCall == \E deltaTime \in 1..MaxDeltaTime : Update(deltaTime)

NextBuildQueue == EnqueueCall \/ CancelCall \/ UpdateCall

SpecBuildQueue == InitBuildQueue /\ [][NextBuildQueue]_vars

---------------------------------------------------------------------------
(* Properties of BuildQueue.                                               *)

\* C11: a queue constructed with queueCapacity >= 0 never holds more than
\* queueCapacity items.
C11_Capacity ==
    _queueCapacity >= 0 => Len(_queue) <= _queueCapacity

\* A queue of two or more items is at its capacity and has just refused an
\* Enqueue without asking the item.
C11_Witness ==
    /\ _queueCapacity >= 2
    /\ Len(_queue) = _queueCapacity
    /\ lastCall.op = "Enqueue"
    /\ ~lastCall.started
    /\ ~lastCall.result

\* C12: Enqueue on a full queue returns false without invoking
\* OnBuildQueueStart, Enqueue of an item whose OnBuildQueueStart is false
\* returns false, and both leave the queue, the indices and the timer as
\* they are; any other Enqueue returns true and appends the item as the
\* last element.
C12_EnqueueOutcome ==
    [][lastCall'.op = "Enqueue" =>
        LET full == Len(_queue) >= _queueCapacity
            refused == ~full /\ ~lastCall'.accepts
        IN  /\ full => ~lastCall'.started
            /\ (full \/ refused) =>
                    /\ ~lastCall'.result
                    /\ _queue' = _queue
                    /\ _queueIndex' = _queueIndex
                    /\ _currentItemTimer' = _currentItemTimer
            /\ ~(full \/ refused) =>
                    /\ lastCall'.result
                    /\ _queue' = Append(_queue, lastCall'.item)]_vars

\* An item was refused by its OnBuildQueueStart while the queue held items
\* and had room.
C12_Witness ==
    /\ lastCall.op = "Enqueue"
    /\ lastCall.started
    /\ ~lastCall.result
    /\ Len(_queue) >= 1
    /\ Len(_queue) < _queueCapacity

\* C13: the item at position i of the queue (from 0) has _queueIndex = i,
\* GetQueueIndex() returns i + 1, and the indices of the queued items are
\* exactly 1..size.
C13_Indices ==
    /\ \A position \in 1..Len(_queue) :
            /\ _queue[position] \in DOMAIN _queueIndex
            /\ _queueIndex[_queue[position]] = position - 1
            /\ GetQueueIndex(_queueIndex, _queue[position]) = position
    /\ {GetQueueIndex(_queueIndex, item) : item \in Queued(_queue)} = 1..Len(_queue)
    /\ Cardinality(Queued(_queue)) = Len(_queue)

\* An item was cancelled while an item enqueued after it is still queued,
\* and two items remain.
C13_Witness ==
    /\ lastCall.op = "Cancel"
    /\ lastCall.result
    /\ Len(_queue) >= 2
    /\ \E earlier, later \in 1..Len(enqueueOrder) :
            /\ earlier < later
            /\ enqueueOrder[earlier] = lastCall.item
            /\ enqueueOrder[later] \in Queued(_queue)

\* The position of an item in a sequence that holds it.
PositionIn(sequence, item) ==
    CHOOSE position \in 1..Len(sequence) : sequence[position] = item

\* C14: Update removes only the front item and runs its finish function
\* once; Cancel runs OnBuildQueueCancel of the cancelled item once and no
\* finish function; no item gets both callbacks or one of them twice; and
\* the finish functions run in the order the items were enqueued.
C14_CompletionOrder ==
    /\ [][(lastCall'.op = "Update" /\ _queue' # _queue) =>
            /\ _queue # << >>
            /\ _queue' = Tail(_queue)
            /\ finishCalls' = Invoked(finishCalls, Head(_queue))
            /\ cancelCalls' = cancelCalls]_vars
    /\ [][(lastCall'.op = "Update" /\ _queue' = _queue) =>
            /\ finishCalls' = finishCalls
            /\ cancelCalls' = cancelCalls]_vars
    /\ [][lastCall'.op = "Cancel" =>
            /\ finishCalls' = finishCalls
            /\ cancelCalls' = IF lastCall'.result
                              THEN Invoked(cancelCalls, lastCall'.item)
                              ELSE cancelCalls]_vars
    /\ [][lastCall'.op = "Enqueue" =>
            /\ finishCalls' = finishCalls
            /\ cancelCalls' = cancelCalls]_vars
    /\ [](\A item \in Items :
            /\ finishCalls[item] + cancelCalls[item] <= 1
            /\ item \in Queued(_queue) => finishCalls[item] + cancelCalls[item] = 0)
    /\ [](\A earlier, later \in 1..Len(finishOrder) :
            earlier < later =>
                PositionIn(enqueueOrder, finishOrder[earlier])
                    < PositionIn(enqueueOrder, finishOrder[later]))

\* Two items have completed and one was cancelled.
C14_Witness ==
    /\ Len(finishOrder) >= 2
    /\ \E item \in Items : cancelCalls[item] = 1

\* C15: Cancel returns true exactly when the item is in the queue and then
\* removes that item and keeps the order of the others; otherwise it
\* invokes no callback and leaves the queue, the indices and the timer as
\* they are.
C15_CancelOutcome ==
    [][lastCall'.op = "Cancel" =>
        LET present == lastCall'.item \in Queued(_queue)
            IsOther(other) == other # lastCall'.item
        IN  /\ lastCall'.result = present
            /\ present =>
                    /\ _queue' = SelectSeq(_queue, IsOther)
                    /\ Len(_queue') = Len(_queue) - 1
            /\ ~present =>
                    /\ _queue' = _queue
                    /\ _queueIndex' = _queueIndex
                    /\ _currentItemTimer' = _currentItemTimer
                    /\ cancelCalls' = cancelCalls
                    /\ finishCalls' = finishCalls]_vars

\* The middle one of three queued items was cancelled.
C15_Witness ==
    /\ lastCall.op = "Cancel"
    /\ lastCall.result
    /\ Len(_queue) = 2
    /\ \E first, middle, last \in 1..Len(enqueueOrder) :
            /\ first < middle
            /\ middle < last
            /\ enqueueOrder[first] = _queue[1]
            /\ enqueueOrder[middle] = lastCall.item
            /\ enqueueOrder[last] = _queue[2]

---------------------------------------------------------------------------
(* GameWorld: Add and Remove run to their return in one step; UpdateAll    *)
(* is a step per turn of its loop, and the Update it calls may construct   *)
(* objects and call Remove before it returns.  Add is called by the        *)
(* constructor of IUpdatable only, once per object; Remove is called by    *)
(* the destructor and is public.                                           *)

InitGameWorld ==
    /\ NewGameWorld
    /\ NoSelector
    /\ NoGeneratePoints
    /\ NoBuildQueue
    /\ NoScan

\* The objects stored in a list, nullptr left out.
Stored(list) == {list[position] : position \in 1..Len(list)} \ {nullptr}

\* A caller can run now: no UpdateAll is in progress, or UpdateAll is
\* inside the Update of an object.
CallerRuns == worldPc \in {"idle", "updating"}

\* IUpdatable::IUpdatable() of a new object, which calls Add(this), here
\* pushing to the update list at once.
AddToUpdateList(object) ==
    /\ CallerRuns
    /\ object \in Objects \ constructed
    /\ _updateList' = Append(_updateList, object)
    /\ constructed' = constructed \cup {object}
    /\ updatedSinceAdd' = updatedSinceAdd \ {object}
    /\ worldCall' = WorldCall("Add", object, FALSE)
    /\ UNCHANGED <<_addList, iterator, worldPc, removed, updatedInFrame,
                   listAtBegin, outsideGameWorld>>

\* IUpdatable::IUpdatable() of a new object, which calls Add(this).
Add(object) ==
    /\ CallerRuns
    /\ object \in Objects \ constructed
    /\ _addList' = Append(_addList, object)
    /\ constructed' = constructed \cup {object}
    /\ updatedSinceAdd' = updatedSinceAdd \ {object}
    /\ worldCall' = WorldCall("Add", object, FALSE)
    /\ UNCHANGED <<_updateList, iterator, worldPc, removed, updatedInFrame,
                   listAtBegin, outsideGameWorld>>

\* Remove(object) leaving the entry of the update list in place.
RemoveKeepingEntry(object) ==
    /\ CallerRuns
    /\ object \in Objects
    /\ removed' = removed \cup ({object} \cap constructed)
    /\ IF Find(_updateList, object) # Len(_updateList) + 1
       THEN /\ worldCall' = WorldCall("Remove", object, TRUE)
            /\ UNCHANGED <<_updateList, _addList>>
       ELSE IF Find(_addList, object) # Len(_addList) + 1
            THEN /\ _addList' = Erase(_addList, Find(_addList, object))
                 /\ worldCall' = WorldCall("Remove", object, TRUE)
                 /\ UNCHANGED _updateList
            ELSE /\ worldCall' = WorldCall("Remove", object, FALSE)
                 /\ UNCHANGED <<_updateList, _addList>>
    /\ UNCHANGED <<iterator, worldPc, constructed, updatedInFrame,
                   updatedSinceAdd, listAtBegin, outsideGameWorld>>

\* Remove(object) returning whether the object was in the update list.
RemoveReportingUpdateList(object) ==
    /\ CallerRuns
    /\ object \in Objects
    /\ removed' = removed \cup ({object} \cap constructed)
    /\ IF Find(_updateList, object) # Len(_updateList) + 1
       THEN /\ _updateList' = [_updateList EXCEPT ![Find(_updateList, object)] = nullptr]
            /\ worldCall' = WorldCall("Remove", object, TRUE)
            /\ UNCHANGED _addList
       ELSE IF Find(_addList, object) # Len(_addList) + 1
            THEN /\ _addList' = Erase(_addList, Find(_addList, object))
                 /\ worldCall' = WorldCall("Remove", object, FALSE)
                 /\ UNCHANGED _updateList
            ELSE /\ worldCall' = WorldCall("Remove", object, FALSE)
                 /\ UNCHANGED <<_updateList, _addList>>
    /\ UNCHANGED <<iterator, worldPc, constructed, updatedInFrame,
                   updatedSinceAdd, listAtBegin, outsideGameWorld>>

\* Remove(object), from ~IUpdatable() or called directly; the pointer is
\* only compared.
Remove(object) ==
    /\ CallerRuns
    /\ object \in Objects
    /\ removed' = removed \cup ({object} \cap constructed)
    /\ IF Find(_updateList, object) # Len(_updateList) + 1
       THEN /\ _updateList' = [_updateList EXCEPT ![Find(_updateList, object)] = nullptr]
            /\ worldCall' = WorldCall("Remove", object, TRUE)
            /\ UNCHANGED _addList
       ELSE IF Find(_addList, object) # Len(_addList) + 1
            THEN /\ _addList' = Erase(_addList, Find(_addList, object))
                 /\ worldCall' = WorldCall("Remove", object, TRUE)
                 /\ UNCHANGED _updateList
            ELSE /\ worldCall' = WorldCall("Remove", object, FALSE)
                 /\ UNCHANGED <<_updateList, _addList>>
    /\ UNCHANGED <<iterator, worldPc, constructed, updatedInFrame,
                   updatedSinceAdd, listAtBegin, outsideGameWorld>>

\* UpdateAll is called: i = _updateList.begin().
BeginUpdateAll ==
    /\ worldPc = "idle"
    /\ worldPc' = "loop"
    /\ iterator' = 1
    /\ updatedInFrame' = [object \in Objects |-> 0]
    /\ listAtBegin' = Stored(_updateList)
    /\ worldCall' = WorldCall("UpdateAll", nullptr, FALSE)
    /\ UNCHANGED <<_addList, _updateList, constructed, removed,
                   updatedSinceAdd, outsideGameWorld>>

\* The loop is at a null entry: i = _updateList.erase(i).
EraseNull ==
    /\ worldPc = "loop"
    /\ iterator <= Len(_updateList)
    /\ _updateList[iterator] = nullptr
    /\ _updateList' = Erase(_updateList, iterator)
    /\ worldCall' = WorldCall("UpdateAll", nullptr, FALSE)
    /\ UNCHANGED <<_addList, iterator, worldPc, constructed, removed,
                   updatedInFrame, updatedSinceAdd, listAtBegin, outsideGameWorld>>

\* The loop is at an object: (*i)->Update() is entered.
CallUpdate ==
    /\ worldPc = "loop"
    /\ iterator <= Len(_updateList)
    /\ _updateList[iterator] # nullptr
    /\ updatedInFrame' = Invoked(updatedInFrame, _updateList[iterator])
    /\ updatedSinceAdd' = updatedSinceAdd \cup {_updateList[iterator]}
    /\ worldPc' = "updating"
    /\ worldCall' = WorldCall("UpdateAll", nullptr, FALSE)
    /\ UNCHANGED <<_addList, _updateList, iterator, constructed, removed,
                   listAtBegin, outsideGameWorld>>

\* Update() returns: i++.
ReturnFromUpdate ==
    /\ worldPc = "updating"
    /\ iterator' = iterator + 1
    /\ worldPc' = "loop"
    /\ worldCall' = WorldCall("UpdateAll", nullptr, FALSE)
    /\ UNCHANGED <<_addList, _updateList, constructed, removed, updatedInFrame,
                   updatedSinceAdd, listAtBegin, outsideGameWorld>>

\* i = _updateList.end(): the add list is pushed to the update list and
\* cleared, and UpdateAll returns.
TransferAddList ==
    /\ worldPc = "loop"
    /\ iterator > Len(_updateList)
    /\ _updateList' = _updateList \o _addList
    /\ _addList' = << >>
    /\ worldPc' = "idle"
    /\ worldCall' = WorldCall("UpdateAll", nullptr, FALSE)
    /\ UNCHANGED <<iterator, constructed, removed, updatedInFrame,
                   updatedSinceAdd, listAtBegin, outsideGameWorld>>

AddCall == \E object \in Objects : Add(object)

RemoveCall == \E object \in Objects : Remove(object)

NextGameWorld ==
    \/ AddCall
    \/ RemoveCall
    \/ BeginUpdateAll
    \/ EraseNull
    \/ CallUpdate
    \/ ReturnFromUpdate
    \/ TransferAddList

SpecGameWorld == InitGameWorld /\ [][NextGameWorld]_vars

---------------------------------------------------------------------------
(* Properties of GameWorld.                                                *)

\* The step on which UpdateAll returns.
UpdateAllReturns == worldPc = "loop" /\ worldPc' = "idle"

\* C16: an object passed to Add is not updated while it waits in the add
\* list; objects enter the update list only on the step that ends an
\* UpdateAll, which appends the whole add list and leaves it empty; and an
\* UpdateAll calls Update once for every object that was in the update list
\* when it began and still is when it ends, never twice for any object and
\* never for an object that was not in the update list when it began.
C16_DeferredAdd ==
    /\ [](Stored(_addList) \cap updatedSinceAdd = {})
    /\ [][Stored(_updateList') \subseteq Stored(_updateList) \/ UpdateAllReturns]_vars
    /\ [][UpdateAllReturns =>
            /\ _updateList' = _updateList \o _addList
            /\ _addList' = << >>
            /\ \A object \in Objects :
                    /\ updatedInFrame[object] <= 1
                    /\ object \notin listAtBegin => updatedInFrame[object] = 0
                    /\ (object \in listAtBegin /\ object \in Stored(_updateList))
                            => updatedInFrame[object] = 1]_vars

\* An UpdateAll has returned that updated one object and transferred
\* another, which was constructed during it and has not been updated.
C16_Witness ==
    /\ worldPc = "idle"
    /\ _addList = << >>
    /\ \E old, new \in Stored(_updateList) :
            /\ updatedInFrame[old] = 1
            /\ old \in listAtBegin
            /\ new \notin listAtBegin
            /\ new \notin updatedSinceAdd

\* C17: once Remove was called for an object, no step calls its Update.
C17_NoUpdateAfterRemove ==
    [][\A object \in removed :
            /\ updatedInFrame'[object] <= updatedInFrame[object]
            /\ object \in updatedSinceAdd' => object \in updatedSinceAdd]_vars

\* An UpdateAll has returned in which an object of the update list was
\* removed from inside the Update of another object before its own turn.
C17_Witness ==
    /\ worldPc = "idle"
    /\ \E object \in removed \cap listAtBegin, other \in Objects :
            /\ updatedInFrame[object] = 0
            /\ updatedInFrame[other] = 1

---------------------------------------------------------------------------
(* MultiSelector::GetObjectsInArea.  Grid::GetGridNodesInSquare is outside *)
(* the sources: its result, the grid nodes of the selection area and the   *)
(* level object of each, is an input of the call.                          *)

\* The sequences of at most n elements of S without a repeated element.
DistinctSeqsUpTo(S, n) ==
    {sequence \in SeqsUpTo(S, n) :
        \A first, second \in 1..Len(sequence) :
            first # second => sequence[first] # sequence[second]}

\* The grid nodes of an area: each holds a level object of its own or none.
GridNodeChoices ==
    {nodes \in SeqsUpTo(LevelObjects \cup {NoLevelObject}, MaxGridNodes) :
        \A first, second \in 1..Len(nodes) :
            (first # second /\ nodes[first] # NoLevelObject)
                => nodes[first] # nodes[second]}

InitSelector ==
    /\ gridNodes \in GridNodeChoices
    /\ objects \in DistinctSeqsUpTo(LevelObjects, 1)
    /\ filterFunction \in SUBSET LevelObjects
    /\ mode \in {eAdd, eSubtract}
    /\ filtered = {}
    /\ deselected = {}
    /\ objectsAtCall = objects
    /\ selectorPc = "call"
    /\ NoGeneratePoints
    /\ NoBuildQueue
    /\ NewGameWorld
    /\ NoScan

\* node->HasLevelObject()
HasLevelObject(node) == node # NoLevelObject

\* PerformSelectionOnObject: the objects list after it.
SelectedWith(list, object, selectionMode) ==
    IF selectionMode = eAdd THEN Append(list, object) ELSE list

\* PerformSelectionOnObject: the objects deselected after it.
DeselectedWith(set, object, selectionMode) ==
    IF selectionMode = eSubtract THEN set \cup {object} ELSE set

\* The loop over all grid nodes from position n on: the objects list and
\* the deselected objects after it.
RECURSIVE SelectFiltered(_, _, _, _, _, _)
SelectFiltered(nodes, n, list, set, filter, selectionMode) ==
    IF n > Len(nodes) THEN [objects |-> list, deselected |-> set]
    ELSE IF HasLevelObject(nodes[n]) /\ nodes[n] \in filter
         THEN SelectFiltered(nodes, n + 1,
                             SelectedWith(list, nodes[n], selectionMode),
                             DeselectedWith(set, nodes[n], selectionMode),
                             filter, selectionMode)
         ELSE SelectFiltered(nodes, n + 1, list, set, filter, selectionMode)

\* The test that guards the unfiltered branch.
SingleTileShortcut(nodes, list) == Len(nodes) = 1 /\ Len(list) = 0

GetObjectsInArea ==
    /\ selectorPc = "call"
    /\ selectorPc' = "returned"
    /\ IF SingleTileShortcut(gridNodes, objects)
       THEN /\ filtered' = filtered
            /\ IF HasLevelObject(gridNodes[1])
               THEN /\ objects' = SelectedWith(objects, gridNodes[1], mode)
                    /\ deselected' = DeselectedWith(deselected, gridNodes[1], mode)
               ELSE UNCHANGED <<objects, deselected>>
       ELSE /\ filtered' = {gridNodes[n] : n \in 1..Len(gridNodes)} \ {NoLevelObject}
            /\ objects' = SelectFiltered(gridNodes, 1, objects, deselected,
                                         filterFunction, mode).objects
            /\ deselected' = SelectFiltered(gridNodes, 1, objects, deselected,
                                            filterFunction, mode).deselected
    /\ UNCHANGED <<gridNodes, filterFunction, mode, objectsAtCall, outsideSelector>>

NextSelector == GetObjectsInArea

SpecSelector == InitSelector /\ [][NextSelector]_vars

\* The level objects in the selection area.
ObjectsInArea == {gridNodes[n] : n \in 1..Len(gridNodes)} \ {NoLevelObject}

\* C19: the filter function is applied exactly when the area holds more
\* than one level object; an only object is selected without the filter
\* being called, on one tile or several, with the objects list empty or
\* not.
C19_FilterOnlyForSeveral ==
    selectorPc = "returned" =>
        /\ Cardinality(ObjectsInArea) > 1 => filtered = ObjectsInArea
        /\ Cardinality(ObjectsInArea) = 1 =>
                /\ filtered = {}
                /\ mode = eAdd =>
                        objects = Append(objectsAtCall, CHOOSE object \in ObjectsInArea : TRUE)
                /\ mode = eSubtract => deselected = ObjectsInArea

---------------------------------------------------------------------------
(* The acceleration grid of GeneratePoints.                                *)

\* C20: every write of the grid made so far (existing points, first
\* point, accepted candidates) and every read GetPointsAroundTile makes
\* for a candidate inside the map uses a first index below the number of
\* allocated rows and a second index below the length of the row, on
\* square maps and on the others.
C20_GridAccessInBounds ==
    /\ pc \in {"while", "for", "pop"} =>
            /\ \A n \in 1..Len(existingPoints) :
                    WriteIsDefined(pointGrid, existingPoints[n], minimumDistance)
            /\ \A n \in 1..Len(outputList) :
                    WriteIsDefined(pointGrid, outputList[n], minimumDistance)
    /\ pc = "for" =>
            \A newPoint \in RandomPointsAroundPoint(currentPoint, minimumDistance) :
                InsideRectangle(newPoint, vector2di(0, 0), mapDimensions) =>
                    ~ReadsOutsideGrid(newPoint, minimumDistance, pointGrid)

---------------------------------------------------------------------------
(* The neighbourhood test against the points pushed so far.                *)

\* The points passed to processQueue.push so far: the existing points, then
\* the first point and the accepted candidates.
Pushed == existingPoints \o appended

\* C21: for every in-bounds candidate and every grid state a call reaches,
\* InNeighborhood returns true exactly when some point pushed to the process
\* queue before lies at distance < minimumDistance from the candidate.
\* Stated on square maps, where no tile of the grid is addressed outside
\* its allocation.
C21_NeighborhoodExhaustive ==
    (pc = "for" /\ mapDimensions.Width = mapDimensions.Height) =>
        \A newPoint \in RandomPointsAroundPoint(currentPoint, minimumDistance) :
            InsideRectangle(newPoint, vector2di(0, 0), mapDimensions) =>
                InNeighborhood(newPoint, minimumDistance, pointGrid)
                    = {\E n \in 1..Len(Pushed) :
                            CloserThan(Pushed[n], newPoint, minimumDistance)}

---------------------------------------------------------------------------
(* GetPointsAroundTile on its own: the tiles it reads.                     *)

MaxPointGridSide == 7

\* A call for every grid of sides up to MaxPointGridSide and every centre
\* tile of it.
InitScan ==
    /\ \E pointGridWidth, pointGridHeight \in 1..MaxPointGridSide :
          /\ scanGrid = NewPointGrid(pointGridWidth, pointGridHeight)
          /\ scanCenter \in {vector2di(x, y) : x \in 0..(pointGridWidth - 1),
                                               y \in 0..(pointGridHeight - 1)}
    /\ scanTiles = {}
    /\ scanPc = "call"
    /\ NoGeneratePoints
    /\ NoBuildQueue
    /\ NewGameWorld
    /\ NoSelector

\* The call runs its loop and returns.
ScanAroundTile ==
    /\ scanPc = "call"
    /\ scanTiles' = TilesAroundTile(scanCenter, scanGrid)
    /\ scanPc' = "returned"
    /\ UNCHANGED <<outsideScan, scanCenter, scanGrid>>

\* The loop reads an entry that was never allocated, and the build traps.
UndefinedScan ==
    /\ scanPc = "call"
    /\ \E tile \in TilesAroundTile(scanCenter, scanGrid) : ~Allocated(scanGrid, tile)
    /\ scanTiles' = {}
    /\ scanPc' = "crashed"
    /\ UNCHANGED <<outsideScan, scanCenter, scanGrid>>

NextScan ==
    \/ ScanAroundTile
    \/ UndefinedScan

SpecScan == InitScan /\ [][NextScan]_vars

\* The 5 by 5 block of tiles centred on a tile, and its four corners.
BlockAround(center) ==
    {vector2di(center.X + dx, center.Y + dy) : dx \in (0 - 2)..2, dy \in (0 - 2)..2}

CornersAround(center) ==
    {vector2di(center.X + dx, center.Y + dy) : dx \in {0 - 2, 2}, dy \in {0 - 2, 2}}

\* The block around the centre tile lies entirely inside the grid.
BlockInsideGrid ==
    \A tile \in BlockAround(scanCenter) :
        /\ 0 <= tile.X /\ tile.X < scanGrid.dimensions.Width
        /\ 0 <= tile.Y /\ tile.Y < scanGrid.dimensions.Height

\* C22 as stated: for a centre tile whose 5 by 5 block lies entirely inside
\* the grid, GetPointsAroundTile reads exactly 23 cells: the block without
\* two of its corner cells, the centre cell included.
C22_ReadsAllButTwoCorners ==
    (scanPc = "returned" /\ BlockInsideGrid) =>
        /\ scanCenter \in scanTiles
        /\ scanTiles \subseteq BlockAround(scanCenter)
        /\ (BlockAround(scanCenter) \ scanTiles) \subseteq CornersAround(scanCenter)
        /\ Cardinality(scanTiles) = 23

\* C22 amended: for a centre tile whose 5 by 5 block lies entirely inside
\* the grid, GetPointsAroundTile reads exactly the 21 cells of the block
\* other than its four corner cells, the centre cell included.
C22_ReadsAllButFourCorners ==
    (scanPc = "returned" /\ BlockInsideGrid) =>
        /\ scanCenter \in scanTiles
        /\ scanTiles = BlockAround(scanCenter) \ CornersAround(scanCenter)
        /\ Cardinality(scanTiles) = 21

\* A call returned for a centre tile with its whole block inside the grid.
C22_Witness ==
    /\ scanPc = "returned"
    /\ BlockInsideGrid
    /\ scanTiles # {}

---------------------------------------------------------------------------
(* What the acceleration grid holds.                                       *)

\* The point stored in the grid cell of a point.
StoredAt(grid, point, dist) ==
    LET gridTile == PointToGridTile(point, dist)
    IN  grid.grid[<<gridTile.X, gridTile.Y>>]

\* C23: no write to the acceleration grid replaces a point, so every point
\* pushed to the process queue is stored in its grid cell from its write
\* until generation ends.  Stated on square maps, where every write
\* addresses an allocated cell.
C23_PushedPointsStored ==
    (pc \in {"while", "for", "pop", "exclude", "done"}
        /\ mapDimensions.Width = mapDimensions.Height) =>
        \A n \in 1..Len(Pushed) :
            StoredAt(pointGrid, Pushed[n], minimumDistance) = Pushed[n]

\* C24: no point written to the acceleration grid, the first point, an
\* existing point or an accepted candidate, equals the empty-cell value
\* (-1, -1), so InNeighborhood passes over no occupied cell.
C24_NoSentinelWritten ==
    /\ \A n \in 1..Len(Pushed) : Pushed[n] # EmptyCell
    /\ pc \in {"while", "for", "pop", "exclude", "done"} =>
            \A cell \in DOMAIN pointGrid.grid :
                pointGrid.grid[cell] # EmptyCell =>
                    \E n \in 1..Len(Pushed) : Pushed[n] = pointGrid.grid[cell]

\* Existing points and an accepted candidate were written to the grid.
C24_Witness ==
    /\ pc = "for"
    /\ existingPoints # << >>
    /\ appended # << >>
    /\ \E cell \in DOMAIN pointGrid.grid : pointGrid.grid[cell] = appended[1]

---------------------------------------------------------------------------
(* Exclusion as a filter of the generated list.                            *)

\* A list without its points inside a rectangle section, the bounds of the
\* section taken in unbounded integers.
WithoutSection(points, section) ==
    SelectSeq(points, LAMBDA point : ~InsideSectionBounds(point, section))

\* C25: ExcludeSection for a rectangle section removes exactly the points
\* with offset <= point < offset + dimensions on both axes, offset = center
\* - dimensions / 2, also when offset or offset + dimensions is negative.
C25_ExactRectangle ==
    [][(/\ pc = "exclude"
        /\ sectionIndex <= Len(excludedSections)
        /\ excludedSections[sectionIndex].shape = eRectangle)
        => outputList' = WithoutSection(outputList, excludedSections[sectionIndex])]_vars

\* A list without its points inside a rectangle section of the list of
\* sections.
RECURSIVE WithoutSections(_, _, _)
WithoutSections(points, sections, k) ==
    IF k > Len(sections) THEN points
    ELSE WithoutSections(
            IF sections[k].shape = eRectangle
            THEN WithoutSection(points, sections[k]) ELSE points,
            sections, k + 1)

\* C26: exclusion is a filter applied after generation: generation runs to
\* its end with every point it accepted in the list, the queue and the
\* grid, whatever excludedSections holds, and the list returned is the
\* list generated, which is the list returned without excluded sections,
\* without the points inside a section.
C26_PostFilter ==
    /\ pc \in {"while", "for", "pop"} => outputList = appended
    /\ Returned => outputList = WithoutSections(appended, excludedSections, 1)

\* The ways to obtain the list kept from the list points by removing
\* entries: the strictly increasing maps of the positions of kept to the
\* positions of points that carry the same points.
Removals(kept, points) ==
    {f \in [1..Len(kept) -> 1..Len(points)] :
        /\ \A j \in 1..Len(kept) : kept[j] = points[f[j]]
        /\ \A j, k \in 1..Len(kept) : j < k => f[j] < f[k]}

\* C27: a call of ExcludeSection for a rectangle section leaves a
\* subsequence of the list: the points that stay keep their order, every
\* point removed is inside the section, and no point inside the section
\* stays.
C27_Subsequence ==
    [][(/\ pc = "exclude"
        /\ sectionIndex <= Len(excludedSections)
        /\ excludedSections[sectionIndex].shape = eRectangle)
        => /\ \E f \in Removals(outputList', outputList) :
                \A n \in 1..Len(outputList) :
                    (\A j \in 1..Len(outputList') : f[j] # n) =>
                        InsideSectionBounds(outputList[n], excludedSections[sectionIndex])
           /\ \A j \in 1..Len(outputList') :
                ~InsideSectionBounds(outputList'[j], excludedSections[sectionIndex])]_vars

---------------------------------------------------------------------------
(* The first point.                                                        *)

---------------------------------------------------------------------------
(* The order of processing.                                                *)

\* The number of points popped from the process queue so far.
Processed == Len(Pushed) - Len(processQueue)

\* C29: without a maximum (maxNumberOfPoints = MAX_INT) the points are
\* processed in the order they were pushed, each once: the queue is what
\* was pushed without the points already popped, the point being processed
\* is the first of these, it is popped after exactly POINTS_PER_LOOP
\* candidates were generated around it, and the loop ends only when the
\* queue is empty.
C29_FifoProcessing ==
    /\ []((~maxNumberSupplied /\ pc \in {"while", "for", "pop"}) =>
            /\ Processed >= 0
            /\ processQueue = SubSeq(Pushed, Processed + 1, Len(Pushed))
            /\ pc \in {"for", "pop"} =>
                    /\ processQueue # << >>
                    /\ currentPoint = Pushed[Processed + 1]
                    /\ i <= POINTS_PER_LOOP
            /\ pc = "pop" => i = POINTS_PER_LOOP)
    /\ [][(~maxNumberSupplied /\ pc = "for" /\ pc' # "crashed") =>
            /\ i' = i + 1
            /\ currentPoint' = currentPoint
            /\ Processed' = Processed]_vars
    /\ [][(~maxNumberSupplied /\ pc = "pop") =>
            /\ Processed' = Processed + 1
            /\ pc' = "while"]_vars
    /\ [][(~maxNumberSupplied /\ pc = "while" /\ pc' = "exclude") =>
            processQueue = << >>]_vars

\* Without a maximum, the second point pushed has had its POINTS_PER_LOOP
\* candidates and is about to be popped, a third point waiting behind it.
C29_Witness ==
    /\ ~maxNumberSupplied
    /\ pc = "pop"
    /\ i = POINTS_PER_LOOP
    /\ Processed = 1
    /\ Len(processQueue) >= 2

\* C30: with a maximum (maxNumberOfPoints < MAX_INT) an acceptance ends the
\* candidate loop, so one pass of the outer loop accepts at most one
\* candidate; numberOfPoints never exceeds maxNumberOfPoints and equals
\* the number of points the loop appended to the output list.
C30_CappedCounter ==
    /\ []((maxNumberSupplied /\ pc \in {"while", "for", "pop", "exclude", "done"}) =>
            /\ numberOfPoints <= maxNumberOfPoints
            /\ numberOfPoints
                = Len(appended) - (IF existingPoints = << >> THEN 1 ELSE 0))
    /\ [][(maxNumberSupplied /\ numberOfPoints' # numberOfPoints /\ pc' # "crashed") =>
            /\ pc = "for"
            /\ numberOfPoints' = numberOfPoints + 1
            /\ pc' = "pop"]_vars
    /\ [][(maxNumberSupplied /\ pc = "pop") => pc' = "while"]_vars

\* With a maximum of two, the loop has ended with two accepted points
\* behind existing points.
C30_Witness ==
    /\ maxNumberSupplied
    /\ pc = "exclude"
    /\ existingPoints # << >>
    /\ numberOfPoints = maxNumberOfPoints
    /\ numberOfPoints = 2

---------------------------------------------------------------------------
(* The map inside one cell of the acceleration grid.                       *)

\* Width and Height are at most minimumDistance / sqrt(2), and no existing
\* points are given.
SingleCellCall ==
    /\ 2 * mapDimensions.Width * mapDimensions.Width
            <= minimumDistance * minimumDistance
    /\ 2 * mapDimensions.Height * mapDimensions.Height
            <= minimumDistance * minimumDistance
    /\ existingPoints = << >>

\* The steps a call without excluded sections has left at most, for a call
\* that accepts no candidate.
StepsLeft ==
    CASE pc = "start" -> POINTS_PER_LOOP + 6
      [] pc = "while" -> IF processQueue # << >> /\ numberOfPoints < maxNumberOfPoints
                         THEN POINTS_PER_LOOP + 5 ELSE 2
      [] pc = "for" -> POINTS_PER_LOOP + 4 - i
      [] pc = "pop" -> 3
      [] pc = "exclude" -> 1
      [] OTHER -> 0

\* C31: when the whole map lies inside one cell of the acceleration grid
\* and no existing points are given, GeneratePoints makes no grid access
\* out of range, accepts no candidate, comes to its return in a bounded
\* number of steps and returns the synthesized first point alone.
C31_SingleCell ==
    /\ [](SingleCellCall =>
            /\ pc # "crashed"
            /\ pc # "done" => ENABLED Next
            /\ pc # "start" =>
                    /\ pointGrid.dimensions = dimension2du(1, 1)
                    /\ Len(appended) = 1
                    /\ outputList = appended
                    /\ WriteIsDefined(pointGrid, appended[1], minimumDistance)
            /\ pc = "for" =>
                    \A newPoint \in RandomPointsAroundPoint(currentPoint, minimumDistance) :
                        InsideRectangle(newPoint, vector2di(0, 0), mapDimensions) =>
                            ~ReadsOutsideGrid(newPoint, minimumDistance, pointGrid))
    /\ [][SingleCellCall => StepsLeft' < StepsLeft]_vars

\* A call for a map of two by two inside one grid cell returned its first
\* point after the candidates around it.
C31_Witness ==
    /\ SingleCellCall
    /\ Returned
    /\ mapDimensions = dimension2du(2, 2)
    /\ i = POINTS_PER_LOOP
    /\ Len(outputList) = 1

---------------------------------------------------------------------------
(* The timer of the current item.                                          *)

\* The step leaves the queue with a front item that was not the front
\* before.
BecomesFront ==
    /\ Len(_queue') >= 1
    /\ Len(_queue) = 0 \/ Head(_queue') # Head(_queue)

\* The step keeps the front item.
KeepsFront ==
    /\ Len(_queue) >= 1
    /\ Len(_queue') >= 1
    /\ Head(_queue') = Head(_queue)

\* C32: while the queue is not empty the timer is the sum of the delta
\* times of the Update calls made since the front item became the front:
\* it is 0 when an item becomes the front, the first item enqueued into a
\* new queue included, an Update that keeps the front adds its delta time,
\* any other call that keeps the front keeps the timer, and Update on an
\* empty queue keeps the timer.
C32_TimerIsFrontTime ==
    /\ [][BecomesFront => _currentItemTimer' = Float(0)]_vars
    /\ [][KeepsFront =>
            _currentItemTimer' = IF lastCall'.op = "Update"
                                 THEN FloatAdd(_currentItemTimer, lastCall'.deltaTime)
                                 ELSE _currentItemTimer]_vars
    /\ [][(lastCall'.op = "Update" /\ Len(_queue) = 0) =>
            _currentItemTimer' = _currentItemTimer]_vars

\* C33: Cancel of the front item sets the timer to 0; Cancel of an item
\* that is not the front, queued or not, leaves the timer and the front
\* item as they are.
C33_CancelTimer ==
    [][lastCall'.op = "Cancel" =>
        IF Len(_queue) >= 1 /\ lastCall'.item = Head(_queue)
        THEN /\ lastCall'.result
             /\ _currentItemTimer' = Float(0)
             /\ _queue' = Tail(_queue)
        ELSE /\ _currentItemTimer' = _currentItemTimer
             /\ Len(_queue) >= 1 => KeepsFront
             /\ Len(_queue) = 0 => Len(_queue') = 0]_vars

\* The front item was cancelled with items behind it: the item cancelled
\* last was enqueued directly before the present front.
C33_Witness ==
    /\ lastCall.op = "Cancel"
    /\ lastCall.result
    /\ Len(_queue) >= 2
    /\ _currentItemTimer = Float(0)
    /\ \E k \in 1..(Len(enqueueOrder) - 1) :
            /\ enqueueOrder[k] = lastCall.item
            /\ enqueueOrder[k + 1] = Head(_queue)

\* C34: one Update call completes at most one item: with a non-empty queue
\* the front item is popped exactly when the timer with the delta time
\* added is >= its GetQueueTime(), its finish function runs once, the
\* timer becomes 0 whatever the surplus, and the items behind it stay, the
\* new front included; otherwise the queue stays and the timer keeps the
\* sum.
C34_UpdateCompletesOne ==
    [][(lastCall'.op = "Update" /\ Len(_queue) >= 1) =>
        LET accumulated == FloatAdd(_currentItemTimer, lastCall'.deltaTime)
            finished == ~accumulated.nan /\ accumulated.value >= queueTime[Head(_queue)]
        IN  IF finished
            THEN /\ _queue' = Tail(_queue)
                 /\ finishOrder' = Append(finishOrder, Head(_queue))
                 /\ finishCalls' = [finishCalls EXCEPT ![Head(_queue)] = @ + 1]
                 /\ deleted' = deleted \cup {Head(_queue)}
                 /\ _currentItemTimer' = Float(0)
            ELSE /\ _queue' = _queue
                 /\ finishOrder' = finishOrder
                 /\ finishCalls' = finishCalls
                 /\ deleted' = deleted
                 /\ _currentItemTimer' = accumulated]_vars

\* An Update with the largest delta time has popped an item, and the new
\* front has a queue time the surplus would have covered.
C34_Witness ==
    /\ lastCall.op = "Update"
    /\ lastCall.deltaTime = MaxDeltaTime
    /\ _currentItemTimer = Float(0)
    /\ Len(_queue) >= 1
    /\ queueTime[Head(_queue)] = 1
    /\ finishOrder # << >>
    /\ queueTime[finishOrder[Len(finishOrder)]] = 1
=============================================================================
